---------------------------- MODULE Spec2Model ----------------------------
(***************************************************************************)
(* Model of the compliance scripts of cpp-ap (src/scripts):                *)
(*   common.py         find_files                                          *)
(*   check_license.py  expected_licence, check_licence, main               *)
(*   check_licence.py  check_licence over the constant LICENCE_INFO        *)
(*   format.py         get_modified_files, run_clang_format, main          *)
(*   check_version.py  get_*_version, all_equal, main, argument parser     *)
(*                                                                         *)
(* Text is a sequence of one-token strings, so that str.strip,             *)
(* str.startswith and the version regular expression are computed on the   *)
(* characters and not assumed.  A path is the sequence of the characters   *)
(* of str(path).                                                           *)
(*                                                                         *)
(* Environment assumptions: every selected file can be opened and decoded, *)
(* and the formatter and git executables can be launched; the exceptions   *)
(* the scripts raise or catch themselves are modelled.                     *)
(***************************************************************************)
EXTENDS Integers, Sequences, FiniteSets, TLC

VARIABLES
    pc,               \* position of the running script
    tool,             \* which script runs
    search_paths,     \* find_files argument
    file_patterns,    \* find_files argument
    exclude_paths,    \* find_files argument
    matching_files,   \* find_files: the list the globs extend
    filtered_files,   \* find_files: the resulting set, in insertion order
    licence_content,  \* lines of the licence template file
    expected,         \* the expected header (expected_licence / LICENCE_INFO)
    lines,            \* _check_file: the stripped lines of the file read
    raw_lines,        \* the lines of the file as stored on disk
    verdict,          \* _check_file: the classification of the file read
    modified_files,   \* format.py -m flag
    check,            \* format.py -c flag
    diff,             \* outcome of `git diff --name-only @{u}`
    files,            \* the file set handed to the scan
    remaining,        \* files the for loop has not reached yet
    log,              \* per-file results in iteration order
    return_code,      \* the scan's return_code local
    exit_code,        \* process exit status handed to sys.exit
    stdout,           \* lines printed to standard output
    stderr,           \* error reported on standard error
    argv,             \* check_version.py: which options the command line gives
    manifests,        \* check_version.py: text of the three manifest files
    args,             \* check_version.py: the parsed namespace
    project_versions  \* check_version.py: extracted versions

vars == << pc, tool, search_paths, file_patterns, exclude_paths, matching_files,
           filtered_files, licence_content, expected, lines, raw_lines, verdict,
           modified_files, check, diff, files, remaining, log, return_code,
           exit_code, stdout, stderr, argv, manifests, args, project_versions >>

\* Optional values: an absent value (Python None) is the empty sequence, a
\* present value x is <<x>>.
None == << >>
Some(x) == <<x>>

-----------------------------------------------------------------------------
(* Generic sequence helpers *)

Range(s) == { s[i] : i \in 1..Len(s) }

SeqsUpTo(S, n) == UNION { [1..k -> S] : k \in 0..n }

IsPrefix(p, s) == Len(p) <= Len(s) /\ SubSeq(s, 1, Len(p)) = p

IsSuffix(p, s) == Len(p) <= Len(s) /\ SubSeq(s, Len(s) - Len(p) + 1, Len(s)) = p

RECURSIVE Concat(_)
Concat(ss) == IF ss = << >> THEN << >> ELSE Head(ss) \o Concat(Tail(ss))

NoDuplicates(s) == \A i, j \in 1..Len(s) : i # j => s[i] # s[j]

-----------------------------------------------------------------------------
(* common.py : find_files *)

\* Bounds of the find_files arguments.
MaxSearchPaths == 2
MaxPatterns == 2
MaxExcludes == 2

\* The source tree the scripts run in, in directory-walk order:
\*   i/a.h   t/b.c   t/e/c.h   tx/d.h
\* ("tx" is a sibling of "t" whose name has "t" as a string prefix).
Tree == << <<"i", "/", "a", ".", "h">>,
           <<"t", "/", "b", ".", "c">>,
           <<"t", "/", "e", "/", "c", ".", "h">>,
           <<"t", "x", "/", "d", ".", "h">> >>

SearchPathOptions == { <<".">>, <<"i">>, <<"t">> }
PatternOptions == { <<"*", ".", "h">>, <<"*", ".", "c">>, <<"a", ".", "h">> }
\* "t/" is the directory "t" written with a trailing slash.
ExcludeOptions == { <<"t">>, <<"t", "/", "e">>, <<"i">>, <<"t", "/">> }

\* Index of the last "/" of a path string, 0 when there is none.
LastSlash(p) ==
    LET S == { i \in 1..Len(p) : p[i] = "/" }
    IN  IF S = {} THEN 0 ELSE CHOOSE i \in S : \A j \in S : j <= i

\* str(file.parent): "." for a file directly under the current directory.
Parent(p) == IF LastSlash(p) = 0 THEN <<".">> ELSE SubSeq(p, 1, LastSlash(p) - 1)

\* file.name
Name(p) == SubSeq(p, LastSlash(p) + 1, Len(p))

\* fnmatch of a file name against a pattern: a leading "*" matches any prefix,
\* the rest is literal.
Match(name, pattern) ==
    IF pattern # << >> /\ Head(pattern) = "*"
    THEN IsSuffix(Tail(pattern), name)
    ELSE name = pattern

\* The file lies in the subtree of directory `path` (Path(".") is the root).
Under(file, path) == path = <<".">> \/ IsPrefix(path \o <<"/">>, file)

\* path.rglob(pattern): the files of the subtree whose name matches.
rglob(path, pattern) ==
    SelectSeq(Tree, LAMBDA f : Under(f, path) /\ Match(Name(f), pattern))

\* Lines 10-14: every search path, every pattern, extend the list.
GlobAll(sp, fp) ==
    Concat([ i \in 1..Len(sp) |->
               Concat([ j \in 1..Len(fp) |-> rglob(sp[i], fp[j]) ]) ])

\* Line 18: str(file.parent).startswith(path) for any exclude path.
Excluded(file, ex) == \E k \in 1..Len(ex) : IsPrefix(ex[k], Parent(file))

\* A list comprehension in place of the set comprehension keeps every copy.
SetAddDup(s, f) == Append(s, f)

\* Adding one element to a Python set keeps a single copy of it.
SetAdd(s, f) == IF f \in Range(s) THEN s ELSE Append(s, f)

\* Kept when not excluded.
Keeps(file, ex) == ~ Excluded(file, ex)

\* Lines 16-19: the set comprehension over matching_files.
RECURSIVE FilterSet(_, _, _)
FilterSet(acc, ms, ex) ==
    IF ms = << >> THEN acc
    ELSE FilterSet(IF Keeps(Head(ms), ex) THEN SetAdd(acc, Head(ms)) ELSE acc,
                   Tail(ms), ex)

find_files(sp, fp, ex) == FilterSet(<< >>, GlobAll(sp, fp), ex)

-----------------------------------------------------------------------------
(* check_license.py / check_licence.py : the expected header and _check_file *)

\* A line is a sequence of tokens; " " is a whitespace character.
IsSpace(c) == c = " "

\* str.strip(): drop leading and trailing whitespace.
RECURSIVE LStrip(_)
LStrip(l) == IF l # << >> /\ IsSpace(Head(l)) THEN LStrip(Tail(l)) ELSE l

RECURSIVE RStrip(_)
RStrip(l) ==
    IF l # << >> /\ IsSpace(l[Len(l)]) THEN RStrip(SubSeq(l, 1, Len(l) - 1)) ELSE l

strip(l) == RStrip(LStrip(l))

\* check_license.py line 10
ADDITIONAL_LICENCE_INFO == << <<"CPP-AP">> >>

\* check_licence.py lines 9-13
LICENCE_INFO == << <<"//copyright">>, <<"//part-of">>, <<"//licensed">> >>

\* Contents of the licence template file (f.read().splitlines()): empty, a
\* plain line, an indented line, a line with trailing whitespace.
Templates == { << >>,
               << <<"MIT">> >>,
               << <<" ", "MIT">> >>,
               << <<"MIT", " ">> >> }

\* The pre and post line groups a caller may pass (None is the empty group).
PreOptions == { << >>, ADDITIONAL_LICENCE_INFO }
PostOptions == { << >>, << <<"end">> >> }

\* check_license.py lines 58-69
expected_licence(content, pre, post) ==
    LET c1 == IF pre # << >> THEN pre \o << << >> >> ELSE << >>
        c3 == IF post # << >> THEN << << >> >> \o post ELSE << >>
    IN  << <<"/*">> >> \o c1 \o content \o c3 \o << <<"*/">> >>

\* class ReturnCode
ReturnCode ==
    [ ok |-> 0, file_to_short |-> -1, missing_licence |-> -2, invalid_licence |-> -3 ]

Verdicts == { "ok", "file_to_short", "missing_licence", "invalid_licence" }

\* Line 92: lines = [line.strip() for line in f.readlines()]
read_lines(raw) == [ i \in 1..Len(raw) |-> strip(raw[i]) ]

\* A file is short only below the header length; this variant is off by one.
check_file_off_by_one(exp, ls) ==
    LET n == Len(exp)
        matching_lines == [ i \in 1..n |-> ls[i] = exp[i] ]
    IN  IF Len(ls) <= n THEN "file_to_short"
        ELSE IF \A i \in 1..n : matching_lines[i] THEN "ok"
        ELSE IF \E i \in 1..n : matching_lines[i] THEN "invalid_licence"
        ELSE "missing_licence"

\* Lines 93-109: the verdict of one file from its stripped lines.
check_file(exp, ls) ==
    LET n_licence_lines == Len(exp)
        n_potential == IF Len(ls) < n_licence_lines THEN Len(ls) ELSE n_licence_lines
    IN  IF n_potential < n_licence_lines THEN "file_to_short"
        ELSE LET matching_lines == [ i \in 1..n_licence_lines |-> ls[i] = exp[i] ]
             IN  IF \A i \in 1..n_licence_lines : matching_lines[i] THEN "ok"
                 ELSE IF \E i \in 1..n_licence_lines : matching_lines[i]
                      THEN "invalid_licence"
                      ELSE "missing_licence"

\* What a file may hold at the place of a header line: the line itself, the line
\* with surrounding whitespace, or unrelated text.
LineAlternatives(e) == { e, <<" ">> \o e \o <<" ">>, <<"x">> }

RECURSIVE Variants(_)
Variants(exp) ==
    IF exp = << >> THEN { << >> }
    ELSE { <<a>> \o r : a \in LineAlternatives(Head(exp)), r \in Variants(Tail(exp)) }

\* The files read: every length from empty to one line past the header.
Contents(exp) ==
    UNION { Variants(SubSeq(exp, 1, k)) : k \in 0..Len(exp) }
    \cup { v \o << <<"x">> >> : v \in Variants(exp) }


-----------------------------------------------------------------------------
(* Values of the variables a script does not use *)

SelectIdle ==
    /\ search_paths = << >> /\ file_patterns = << >> /\ exclude_paths = << >>
    /\ matching_files = << >> /\ filtered_files = << >>

LicenceIdle ==
    /\ licence_content = << >> /\ expected = << >>
    /\ lines = << >> /\ raw_lines = << >> /\ verdict = "None"

ScanIdle ==
    /\ modified_files = FALSE /\ check = FALSE /\ diff = None
    /\ files = {} /\ remaining = {} /\ log = << >> /\ return_code = None

OutputIdle == exit_code = None /\ stdout = << >> /\ stderr = << >>

VersionIdle ==
    /\ argv = {} /\ manifests = << >> /\ args = << >> /\ project_versions = << >>

selectVars == << search_paths, file_patterns, exclude_paths, matching_files,
                 filtered_files >>
licenceVars == << licence_content, expected, lines, raw_lines, verdict >>
scanVars == << modified_files, check, diff, files, remaining, log, return_code >>
outputVars == << exit_code, stdout, stderr >>
versionVars == << argv, manifests, args, project_versions >>

-----------------------------------------------------------------------------
(* find_files applied to bounded arguments *)

InitSelect ==
    /\ pc = "find_files" /\ tool = "find_files"
    /\ search_paths \in SeqsUpTo(SearchPathOptions, MaxSearchPaths)
    /\ file_patterns \in SeqsUpTo(PatternOptions, MaxPatterns)
    /\ exclude_paths \in SeqsUpTo(ExcludeOptions, MaxExcludes)
    /\ matching_files = << >> /\ filtered_files = << >>
    /\ LicenceIdle /\ ScanIdle /\ OutputIdle /\ VersionIdle

\* common.py lines 10-14
Glob ==
    /\ pc = "find_files"
    /\ matching_files' = GlobAll(search_paths, file_patterns)
    /\ pc' = "filter"
    /\ UNCHANGED << tool, search_paths, file_patterns, exclude_paths, filtered_files,
                    licenceVars, scanVars, outputVars, versionVars >>

\* common.py lines 16-21
Filter ==
    /\ pc = "filter"
    /\ filtered_files' = FilterSet(<< >>, matching_files, exclude_paths)
    /\ pc' = "selected"
    /\ UNCHANGED << tool, search_paths, file_patterns, exclude_paths, matching_files,
                    licenceVars, scanVars, outputVars, versionVars >>

NextSelect == Glob \/ Filter

SpecSelect == InitSelect /\ [][NextSelect]_vars

\* C8: in the result of find_files no path occurs twice, and no result file has
\* a parent directory whose string starts with an exclusion prefix.
C8_ResultIsSetWithoutExcluded ==
    pc = "selected" =>
        /\ NoDuplicates(filtered_files)
        /\ \A i \in 1..Len(filtered_files) : \A k \in 1..Len(exclude_paths) :
              ~ IsPrefix(exclude_paths[k], Parent(filtered_files[i]))

\* A selection where one file was matched twice (overlapping search paths or
\* patterns), another matched file was excluded, and a file is returned.
C8_Witness ==
    /\ pc = "selected"
    /\ ~ NoDuplicates(matching_files)
    /\ \E i \in 1..Len(matching_files) : Excluded(matching_files[i], exclude_paths)
    /\ \E i, j \in 1..Len(matching_files) :
          i # j /\ matching_files[i] = matching_files[j]
               /\ matching_files[i] \in Range(filtered_files)

-----------------------------------------------------------------------------
(* _check_file applied to one header and one file *)

InitCheckFile ==
    /\ pc = "expected_licence"
    /\ tool \in { "check_license", "check_licence" }
    /\ licence_content \in (IF tool = "check_license" THEN Templates ELSE { << >> })
    /\ expected = << >> /\ lines = << >> /\ raw_lines = << >> /\ verdict = "None"
    /\ SelectIdle /\ ScanIdle /\ OutputIdle /\ VersionIdle

\* check_license.py builds the header from the template; check_licence.py
\* takes the constant.
BuildExpected ==
    /\ pc = "expected_licence"
    /\ \/ /\ tool = "check_license"
          /\ \E pre \in PreOptions, post \in PostOptions :
                expected' = expected_licence(licence_content, pre, post)
       \/ /\ tool = "check_licence"
          /\ expected' = LICENCE_INFO
    /\ pc' = "open"
    /\ UNCHANGED << tool, licence_content, lines, raw_lines, verdict,
                    selectVars, scanVars, outputVars, versionVars >>

\* Lines 91-92: read and strip the lines of the file.
ReadFile ==
    /\ pc = "open"
    /\ \E raw \in Contents(expected) :
          /\ raw_lines' = raw
          /\ lines' = read_lines(raw)
    /\ pc' = "compare"
    /\ UNCHANGED << tool, licence_content, expected, verdict,
                    selectVars, scanVars, outputVars, versionVars >>

\* Lines 93-109
Classify ==
    /\ pc = "compare"
    /\ verdict' = check_file(expected, lines)
    /\ pc' = "classified"
    /\ UNCHANGED << tool, licence_content, expected, lines, raw_lines,
                    selectVars, scanVars, outputVars, versionVars >>

NextCheckFile == BuildExpected \/ ReadFile \/ Classify

SpecCheckFile == InitCheckFile /\ [][NextCheckFile]_vars

\* Number of header positions at which the stripped file line equals the header line.
Matches == Cardinality({ i \in 1..Len(expected) : i <= Len(lines) /\ lines[i] = expected[i] })

\* C4: a file gets exactly one verdict: too-short iff it has fewer lines than
\* the header; otherwise compliant iff all positional comparisons are equal,
\* missing iff none is, incomplete iff some but not all are.
C4_VerdictByLineComparison ==
    pc = "classified" =>
        /\ verdict \in Verdicts
        /\ (verdict = "file_to_short") <=> (Len(raw_lines) < Len(expected))
        /\ Len(raw_lines) >= Len(expected) =>
              /\ (verdict = "ok") <=> (Matches = Len(expected))
              /\ (verdict = "missing_licence") <=> (Matches = 0)
              /\ (verdict = "invalid_licence") <=> (0 < Matches /\ Matches < Len(expected))

\* A file exactly as long as the header of which some lines match and some do not.
C4_Witness ==
    /\ pc = "classified"
    /\ Len(raw_lines) = Len(expected)
    /\ 0 < Matches /\ Matches < Len(expected)
    /\ verdict = "invalid_licence"

\* C7: a file whose first N lines are exactly the expected header is compliant,
\* whatever follows.
C7_ExactHeaderIsCompliant ==
    (/\ pc = "classified"
     /\ Len(raw_lines) >= Len(expected)
     /\ SubSeq(raw_lines, 1, Len(expected)) = expected)
    => verdict = "ok"


-----------------------------------------------------------------------------
(* The licence and format scripts run from main to sys.exit *)

\* Greatest exit status the external formatter returns.
MaxExit == 2

LicenceTools == { "check_license", "check_licence" }

\* DefaultParameters.file_patterns, for the extensions the tree holds
DefaultPatterns == << <<"*", ".", "c">>, <<"*", ".", "h">> >>

\* Argument lists main receives: argparse extends the default lists, so
\* search_paths starts with "include" (and "tests" for format.py) and format.py's
\* exclude_paths starts with "tests/external".
ScanArguments(t) ==
    IF t \in LicenceTools
    THEN { [ sp |-> << <<"i">> >>,            ex |-> << >> ],
           [ sp |-> << <<"i">> >>,            ex |-> << <<"i">> >> ],
           [ sp |-> << <<"i">>, <<"t">> >>,   ex |-> << <<"t", "/", "e">> >> ],
           [ sp |-> << <<"i">>, <<".">> >>,   ex |-> << <<"t", "/", "e">> >> ] }
    ELSE { [ sp |-> << <<"i">>, <<"t">> >>,          ex |-> << <<"t", "/", "e">> >> ],
           [ sp |-> << <<"i">>, <<"t">>, <<".">> >>, ex |-> << <<"t", "/", "e">> >> ],
           [ sp |-> << <<"i">>, <<"t">> >>,
             ex |-> << <<"t", "/", "e">>, <<"i">>, <<"t">> >> ] }

\* What `git diff --name-only @{u}` may answer: success with any set of output
\* lines (changed paths, possibly an empty line), or a failure.
DiffLines == { <<"i", "/", "a", ".", "h">>, <<"t", "/", "b", ".", "c">>,
               <<"R", "E", "A", "D", "M", "E">>, << >> }

DiffOutcomes ==
    { [ returncode |-> 0, stdout |-> ls ] : ls \in SUBSET DiffLines }
    \cup { [ returncode |-> 128, stdout |-> {} ] }

\* The files a whole run reads, one or more of each verdict: empty, the header
\* without its last line, the exact header, the header followed by code, the
\* header with surrounding whitespace on every line, unrelated text, and the
\* header's first line followed by unrelated text.
FilesOnDisk(exp) ==
    { << >>,
      SubSeq(exp, 1, Len(exp) - 1),
      exp,
      exp \o << <<"x">> >>,
      [ i \in 1..Len(exp) |-> <<" ">> \o exp[i] \o <<" ">> ],
      [ i \in 1..Len(exp) |-> <<"x">> ],
      [ i \in 1..Len(exp) |-> IF i = 1 THEN exp[i] ELSE <<"x">> ] }

\* Every file found counts as modified.
get_modified_files_all(fs, result) == fs

\* format.py lines 72-73
get_modified_files(fs, result) == { f \in result.stdout : f # << >> } \cap fs

\* The scan keeps the code of the latest failure.
set_return_code_last(rc, c) == Some(c)

\* check_license.py lines 84-86: `c if not return_code else return_code`
set_return_code(rc, c) == IF rc = None \/ rc = Some(0) THEN Some(c) ELSE rc

\* The scan keeps the formatter's first non-zero exit status.
format_return_code_first(rc, returncode) ==
    IF returncode # 0 /\ rc = Some(0) THEN Some(returncode) ELSE rc

\* format.py lines 97-98
format_return_code(rc, returncode) == IF returncode # 0 THEN Some(returncode) ELSE rc

\* A scan that gives up at the first failing file.
loop_rest_fail_fast(rem, f, failed) == IF failed THEN {} ELSE rem \ { f }

\* `for i, file in enumerate(files)`: the files still to visit after `f`,
\* whether or not the check of `f` failed.
loop_rest(rem, f, failed) == rem \ { f }

\* sys.exit(arg): None is exit status 0, an integer is the status itself.
sys_exit(arg) == IF arg = None THEN Some(0) ELSE arg

Line(kind, file, text) == [ kind |-> kind, file |-> file, text |-> text ]

Init ==
    /\ pc = "main"
    /\ tool \in LicenceTools \cup { "format" }
    /\ \E a \in ScanArguments(tool) : search_paths = a.sp /\ exclude_paths = a.ex
    /\ file_patterns = DefaultPatterns
    /\ matching_files = << >> /\ filtered_files = << >>
    /\ licence_content \in (IF tool = "check_license" THEN Templates ELSE { << >> })
    /\ expected = << >> /\ lines = << >> /\ raw_lines = << >> /\ verdict = "None"
    /\ modified_files \in (IF tool = "format" THEN BOOLEAN ELSE { FALSE })
    /\ check \in (IF tool = "format" THEN BOOLEAN ELSE { FALSE })
    /\ diff = None
    /\ files = {} /\ remaining = {} /\ log = << >> /\ return_code = None
    /\ OutputIdle /\ VersionIdle

\* check_license.py lines 121-131 and 79-88; check_licence.py lines 100-106, 60-69
LicenceMain ==
    /\ pc = "main" /\ tool \in LicenceTools
    /\ LET files_to_check == find_files(search_paths, file_patterns, exclude_paths)
       IN  /\ filtered_files' = files_to_check
           /\ files' = Range(files_to_check)
           /\ remaining' = Range(files_to_check)
    /\ expected' = IF tool = "check_license"
                   THEN expected_licence(licence_content, ADDITIONAL_LICENCE_INFO, << >>)
                   ELSE LICENCE_INFO
    /\ return_code' = None
    /\ stdout' = Append(stdout, Line("files_to_check", << >>, "count"))
    /\ pc' = "scan"
    /\ UNCHANGED << tool, search_paths, file_patterns, exclude_paths, matching_files,
                    licence_content, lines, raw_lines, verdict, modified_files, check,
                    diff, log, exit_code, stderr, versionVars >>

\* check_license.py lines 112-114 with _check_file, lines 90-109
LicenceCheckNext ==
    /\ pc = "scan" /\ tool \in LicenceTools /\ remaining # {}
    /\ \E f \in remaining, raw \in FilesOnDisk(expected) :
          LET v == check_file(expected, read_lines(raw))
          IN  /\ log' = Append(log, [ file |-> f, verdict |-> v, rc |-> ReturnCode[v] ])
              /\ return_code' = IF v = "ok" THEN return_code
                                ELSE set_return_code(return_code, ReturnCode[v])
              /\ stdout' = IF v = "ok"
                           THEN Append(stdout, Line("progress", f, ""))
                           ELSE stdout \o << Line("progress", f, ""),
                                             Line("licence_error", f, v) >>
              /\ remaining' = loop_rest(remaining, f, v # "ok")
    /\ UNCHANGED << pc, tool, selectVars, licenceVars, modified_files, check, diff,
                    files, exit_code, stderr, versionVars >>

\* check_license.py lines 116-118 and 128; check_licence.py lines 97 and 106
LicenceDone ==
    /\ pc = "scan" /\ tool \in LicenceTools /\ remaining = {}
    /\ stdout' = IF tool = "check_license"
                 THEN Append(stdout, Line("done", << >>, "Done!"))
                 ELSE stdout
    /\ exit_code' = sys_exit(return_code)
    /\ pc' = "done"
    /\ UNCHANGED << tool, selectVars, licenceVars, scanVars, stderr, versionVars >>

\* format.py lines 112-116, 62-77 and 80-87
FormatMain ==
    /\ pc = "main" /\ tool = "format"
    /\ LET files_to_format == find_files(search_paths, file_patterns, exclude_paths)
       IN  /\ filtered_files' = files_to_format
           /\ \/ /\ ~ modified_files
                 /\ files' = Range(files_to_format)
                 /\ remaining' = Range(files_to_format)
                 /\ return_code' = Some(0)
                 /\ stdout' = Append(stdout, Line("files", << >>, "count"))
                 /\ pc' = "scan"
                 /\ UNCHANGED << diff, exit_code >>
              \/ /\ modified_files
                 /\ \E result \in DiffOutcomes :
                       /\ result.returncode = 0
                       /\ diff' = Some(result)
                       /\ files' = get_modified_files(Range(files_to_format), result)
                       /\ remaining' = get_modified_files(Range(files_to_format), result)
                 /\ return_code' = Some(0)
                 /\ stdout' = Append(stdout, Line("files", << >>, "count"))
                 /\ pc' = "scan"
                 /\ UNCHANGED exit_code
              \/ /\ modified_files
                 /\ \E result \in DiffOutcomes :
                       /\ result.returncode # 0
                       /\ diff' = Some(result)
                 /\ stdout' = Append(stdout, Line("git_error", << >>,
                                                  "Error executing git command"))
                 /\ exit_code' = Some(1)
                 /\ pc' = "aborted"
                 /\ UNCHANGED << files, remaining, return_code >>
    /\ UNCHANGED << tool, search_paths, file_patterns, exclude_paths, matching_files,
                    licenceVars, modified_files, check, log, stderr, versionVars >>

\* format.py lines 88-99
FormatNext ==
    /\ pc = "scan" /\ tool = "format" /\ remaining # {}
    /\ \E f \in remaining, returncode \in 0..MaxExit :
          /\ log' = Append(log, [ file |-> f,
                                  verdict |-> IF check THEN "dry-run" ELSE "in-place",
                                  rc |-> returncode ])
          /\ return_code' = format_return_code(return_code, returncode)
          /\ stdout' = IF returncode = 0
                       THEN Append(stdout, Line("progress", f, ""))
                       ELSE stdout \o << Line("progress", f, ""),
                                         Line("format_error", f, "") >>
          /\ remaining' = loop_rest(remaining, f, returncode # 0)
    /\ UNCHANGED << pc, tool, selectVars, licenceVars, modified_files, check, diff,
                    files, exit_code, stderr, versionVars >>

\* format.py lines 101-102 and 116
FormatDone ==
    /\ pc = "scan" /\ tool = "format" /\ remaining = {}
    /\ stdout' = Append(stdout, Line("done", << >>, "Done!"))
    /\ exit_code' = sys_exit(return_code)
    /\ pc' = "done"
    /\ UNCHANGED << tool, selectVars, licenceVars, scanVars, stderr, versionVars >>

Next ==
    \/ LicenceMain \/ LicenceCheckNext \/ LicenceDone
    \/ FormatMain \/ FormatNext \/ FormatDone

Spec == Init /\ [][Next]_vars

\* The scan is a sequential for loop over a finite set with blocking calls:
\* an iteration that can be taken is taken, and so is the return after the
\* last one.
FairSpec ==
    /\ Spec
    /\ WF_vars(LicenceCheckNext) /\ WF_vars(LicenceDone)
    /\ WF_vars(FormatNext) /\ WF_vars(FormatDone)


\* Positions of the log whose file did not pass.
Failures == { i \in 1..Len(log) : log[i].rc # 0 }

FirstFailure == CHOOSE i \in Failures : \A j \in Failures : i <= j
LastFailure == CHOOSE i \in Failures : \A j \in Failures : j <= i

\* C1: a licence run exits 0 when every file is compliant, and otherwise with
\* the code of the first non-compliant verdict in iteration order
\* (too-short -1, missing -2, incomplete -3); a later verdict never replaces it.
C1_FirstNonCompliantWins ==
    (pc = "done" /\ tool \in LicenceTools) =>
        LET NonCompliant == { i \in 1..Len(log) : log[i].verdict # "ok" }
            first == CHOOSE i \in NonCompliant : \A j \in NonCompliant : i <= j
            code(v) == CASE v = "file_to_short" -> -1
                         [] v = "missing_licence" -> -2
                         [] v = "invalid_licence" -> -3
        IN  exit_code = IF NonCompliant = {} THEN Some(0)
                        ELSE Some(code(log[first].verdict))

\* A finished licence run whose first and last non-compliant verdicts differ.
C1_Witness ==
    /\ pc = "done" /\ tool \in LicenceTools
    /\ Failures # {}
    /\ log[FirstFailure].rc # log[LastFailure].rc
    /\ exit_code = Some(log[FirstFailure].rc)

\* C2: a format run, in check-only and in rewrite mode, exits with the status
\* of the last formatter invocation that returned non-zero, and with 0 when no
\* invocation returned non-zero (also over an empty file set).
C2_LastNonZeroWins ==
    (pc = "done" /\ tool = "format") =>
        exit_code = IF Failures = {} THEN Some(0) ELSE Some(log[LastFailure].rc)

\* A finished check-only run whose first and last non-zero formatter exits differ.
C2_Witness ==
    /\ pc = "done" /\ tool = "format" /\ check
    /\ Failures # {}
    /\ log[FirstFailure].rc # log[LastFailure].rc
    /\ exit_code = Some(log[LastFailure].rc)

LoggedFiles == [ i \in 1..Len(log) |-> log[i].file ]

\* C3: once the scan of a file set has started, every file of the set is
\* checked exactly once before the exit code is returned, whatever the per-file
\* results, and the run reaches its done state.
C3_EveryFileCheckedOnce ==
    /\ [](pc = "done" => (Range(LoggedFiles) = files /\ NoDuplicates(LoggedFiles)))
    /\ [](pc = "scan" => (Range(LoggedFiles) \cup remaining = files
                          /\ Range(LoggedFiles) \cap remaining = {}))
    /\ ((pc = "scan") ~> (pc = "done"))

\* A finished run over three files of which the first two failed.
C3_Witness ==
    /\ pc = "done"
    /\ Cardinality(files) = 3 /\ Len(log) = 3
    /\ log[1].rc # 0 /\ log[2].rc # 0

\* The changed paths the diff printed.
ChangedPaths == IF diff = None THEN {} ELSE { f \in diff[1].stdout : f # << >> }

\* The file set find_files selected.
Selected == Range(find_files(search_paths, file_patterns, exclude_paths))

\* C9: in modified-files mode the formatter is invoked on a file only if the
\* diff command succeeded and the file is both selected and changed; when the
\* diff command fails the run aborts with a non-zero exit and no formatter
\* invocation, and no file set is processed.
C9_ModifiedOnlyAfterDiff ==
    (tool = "format" /\ modified_files) =>
        /\ \A i \in 1..Len(log) :
              /\ diff # None /\ diff[1].returncode = 0
              /\ log[i].file \in Selected \cap ChangedPaths
        /\ (diff # None /\ diff[1].returncode # 0) =>
              /\ pc = "aborted"
              /\ exit_code # None /\ exit_code # Some(0)
              /\ log = << >> /\ files = {} /\ remaining = {}

\* A finished modified-files run that formatted a changed file, left a selected
\* but unchanged file alone, and ignored a changed path outside the selection.
C9_Witness ==
    /\ tool = "format" /\ modified_files /\ pc = "done"
    /\ Len(log) >= 1
    /\ Selected \ ChangedPaths # {}
    /\ ChangedPaths \ Selected # {}
    /\ Range(LoggedFiles) = Selected \cap ChangedPaths


-----------------------------------------------------------------------------
(* check_version.py *)

\* A manifest is a sequence of tokens: "K" stands for the text the manifest's
\* pattern requires before the version (`project(... VERSION `, a line start
\* with `PROJECT_NUMBER = `, `version = `), "Q" for a double quote, "x" for any
\* other text; digits and "." stand for themselves.
IsDigit(c) == c \in { "0", "1", "2", "5" }

\* VERSION_REGEX, line 8: \d+\.\d+(?:\.\d+)* matches the whole of w.
IsVersion(w) ==
    /\ Len(w) >= 3
    /\ IsDigit(w[1]) /\ IsDigit(w[Len(w)])
    /\ \A i \in 1..Len(w) : IsDigit(w[i]) \/ w[i] = "."
    /\ \E i \in 1..Len(w) : w[i] = "."
    /\ \A i \in 1..(Len(w) - 1) : ~ (w[i] = "." /\ w[i + 1] = ".")

\* Last positions e at which a version starting at position i may end.
VersionEnds(text, i) == { e \in i..Len(text) : IsVersion(SubSeq(text, i, e)) }

Max(S) == CHOOSE x \in S : \A y \in S : y <= x
Min(S) == CHOOSE x \in S : \A y \in S : x <= y

At(text, i) == IF i \in 1..Len(text) THEN text[i] ELSE "eof"

\* Ends of a version that starts at i and is followed by a double quote.
QuotedEnds(text, i) == { e \in VersionEnds(text, i) : At(text, e + 1) = "Q" }

Keys(text) == { k \in 1..Len(text) : text[k] = "K" }

\* re.search: the leftmost position where the pattern matches, and there the
\* longest version the greedy quantifiers allow.  << >> is "no match".

\* Line 13: key, then the version.
cmake_search(text) ==
    LET ks == { k \in Keys(text) : VersionEnds(text, k + 1) # {} }
    IN  IF ks = {} THEN None
        ELSE Some(SubSeq(text, Min(ks) + 1, Max(VersionEnds(text, Min(ks) + 1))))

\* Line 21: key, an optional quote, the version, the same quote again.
doxy_search(text) ==
    LET quoted(k) == At(text, k + 1) = "Q" /\ QuotedEnds(text, k + 2) # {}
        bare(k) == VersionEnds(text, k + 1) # {}
        ks == { k \in Keys(text) : quoted(k) \/ bare(k) }
        k0 == Min(ks)
    IN  IF ks = {} THEN None
        ELSE IF quoted(k0)
             THEN Some(SubSeq(text, k0 + 2, Max(QuotedEnds(text, k0 + 2))))
             ELSE Some(SubSeq(text, k0 + 1, Max(VersionEnds(text, k0 + 1))))

\* Line 29: key, a quote, the version, a quote.
bazel_search(text) ==
    LET ks == { k \in Keys(text) : At(text, k + 1) = "Q" /\ QuotedEnds(text, k + 2) # {} }
    IN  IF ks = {} THEN None
        ELSE Some(SubSeq(text, Min(ks) + 2, Max(QuotedEnds(text, Min(ks) + 2))))

Sources == << "CMake", "Doxygen", "Bazel" >>

search(source, text) ==
    CASE source = "CMake" -> cmake_search(text)
      [] source = "Doxygen" -> doxy_search(text)
      [] source = "Bazel" -> bazel_search(text)

V251 == << "2", ".", "5", ".", "1" >>
V250 == << "2", ".", "5", ".", "0" >>
V25 == << "2", ".", "5" >>

\* Manifest files the checker may be run on.
ManifestTexts(source) ==
    CASE source = "CMake" ->
           { <<"K">> \o V251, <<"K">> \o V250, <<"K">> \o V25,
             <<"K">> \o V25 \o <<".">>,          \* VERSION 2.5.
             <<"K", "2">>,                        \* VERSION 2
             <<"x">> }                            \* no project version
      [] source = "Doxygen" ->
           { <<"K">> \o V251, <<"K", "Q">> \o V251 \o <<"Q">>, <<"K">> \o V250,
             <<"K", "Q">> \o V25 \o <<"Q">>,
             <<"K", "Q">> \o V251,               \* opening quote only
             <<"x">> }
      [] source = "Bazel" ->
           { <<"K", "Q">> \o V251 \o <<"Q">>, <<"K", "Q">> \o V250 \o <<"Q">>,
             <<"K", "Q">> \o V25 \o <<"Q">>,
             <<"K">> \o V251,                     \* version = 2.5.1
             <<"K", "Q", "2", "Q", "x", "K", "Q">> \o V251 \o <<"Q">>,
             <<"x">> }

Options == { "cmake", "doxygen", "bazel" }

OptionOf(source) ==
    CASE source = "CMake" -> "cmake"
      [] source = "Doxygen" -> "doxygen"
      [] source = "Bazel" -> "bazel"

\* Lines 60-83: an option given on the command line is parsed with nargs=1
\* into a one-element list of Path; an option left out takes its default,
\* which argparse converts to a Path.
parse_args(given) == [ o \in Options |-> IF o \in given THEN "list" ELSE "Path" ]

\* Lines 11-32: read_text() on the argument, search, return the group or raise.
get_version(source, arg, text) ==
    IF arg # "Path"
    THEN [ raised |-> "AttributeError", source |-> "", value |-> << >> ]
    ELSE IF search(source, text) = None
         THEN [ raised |-> "ValueError", source |-> source, value |-> << >> ]
         ELSE [ raised |-> "", source |-> source, value |-> search(source, text)[1] ]

\* Only the first two versions are compared.
all_equal_first_two(items) == items[1] = items[2]

\* Lines 35-36
all_equal(items) == Cardinality(Range(items)) = 1

\* Lines 40-48: the extractions in order; the first exception ends the run.
Extracted(a, texts) ==
    [ i \in 1..3 |-> get_version(Sources[i], a[OptionOf(Sources[i])], texts[i]) ]

Raising(results) == { i \in 1..3 : results[i].raised # "" }

ErrorLine(r) == [ kind |-> r.raised, source |-> r.source, entries |-> << >> ]

MismatchLine(versions) ==
    [ kind |-> "mismatch", source |-> "",
      entries |-> [ i \in 1..3 |-> << Sources[i], versions[i] >> ] ]

InitVersion ==
    /\ pc = "parse_args" /\ tool = "check_version"
    /\ argv \in SUBSET Options
    /\ manifests \in { <<c, d, b>> : c \in ManifestTexts("CMake"),
                                     d \in ManifestTexts("Doxygen"),
                                     b \in ManifestTexts("Bazel") }
    /\ args = << >> /\ project_versions = << >>
    /\ SelectIdle /\ LicenceIdle /\ ScanIdle /\ OutputIdle

\* Lines 60-83
ParseArgs ==
    /\ pc = "parse_args"
    /\ args' = parse_args(argv)
    /\ pc' = "extract"
    /\ UNCHANGED << tool, argv, manifests, project_versions,
                    selectVars, licenceVars, scanVars, outputVars >>

\* Lines 40-48
Extract ==
    /\ pc = "extract"
    /\ LET results == Extracted(args, manifests)
       IN  IF Raising(results) = {}
           THEN /\ project_versions' = [ i \in 1..3 |-> results[i].value ]
                /\ pc' = "compare"
                /\ UNCHANGED << stderr, exit_code >>
           ELSE /\ stderr' = Append(stderr, ErrorLine(results[Min(Raising(results))]))
                /\ exit_code' = Some(1)
                /\ pc' = "done"
                /\ UNCHANGED project_versions
    /\ UNCHANGED << tool, argv, manifests, args, stdout,
                    selectVars, licenceVars, scanVars >>

\* Lines 51-56
Compare ==
    /\ pc = "compare"
    /\ IF ~ all_equal(project_versions)
       THEN /\ stderr' = Append(stderr, MismatchLine(project_versions))
            /\ exit_code' = Some(1)
            /\ UNCHANGED stdout
       ELSE /\ stdout' = Append(stdout, project_versions[1])
            /\ exit_code' = Some(0)
            /\ UNCHANGED stderr
    /\ pc' = "done"
    /\ UNCHANGED << tool, argv, manifests, args, project_versions,
                    selectVars, licenceVars, scanVars >>

NextVersion == ParseArgs \/ Extract \/ Compare

SpecVersion == InitVersion /\ [][NextVersion]_vars

\* C5: once all three versions are extracted, the check succeeds (exit 0, the
\* version printed) iff the three strings are equal; on a mismatch it reports
\* all three source/value pairs and exits non-zero.
C5_SucceedsIffStringsEqual ==
    (pc = "done" /\ project_versions # << >>) =>
        LET equal == /\ project_versions[1] = project_versions[2]
                     /\ project_versions[2] = project_versions[3]
        IN  /\ equal <=> (exit_code = Some(0) /\ stdout = << project_versions[1] >>)
            /\ equal => stderr = << >>
            /\ ~ equal =>
                  /\ exit_code # None /\ exit_code # Some(0)
                  /\ stdout = << >>
                  /\ Len(stderr) = 1
                  /\ stderr[1].kind = "mismatch"
                  /\ \A i \in 1..3 :
                        stderr[1].entries[i] = << Sources[i], project_versions[i] >>

\* A finished check where CMake and Doxygen give 2.5 and Bazel gives 2.5.0.
C5_Witness ==
    /\ pc = "done"
    /\ project_versions = << V25, V25, V250 >>
    /\ exit_code = Some(1)

\* C6: if a manifest holds no match for its pattern, the check ends with a
\* non-zero exit and an extraction error naming that manifest, without
\* comparing and without printing a version, whatever the other manifests hold.
C6_NoMatchAbortsNamingManifest ==
    \A i \in 1..3 :
        (pc = "done" /\ search(Sources[i], manifests[i]) = None) =>
            /\ exit_code # None /\ exit_code # Some(0)
            /\ Len(stderr) = 1
            /\ stderr[1].kind = "ValueError" /\ stderr[1].source = Sources[i]
            /\ project_versions = << >>
            /\ stdout = << >>

\* What the run over the same three files prints and returns when every path
\* is taken from its option's default.
DefaultRun(texts) ==
    LET results == Extracted(parse_args({}), texts)
        versions == [ i \in 1..3 |-> results[i].value ]
    IN  IF Raising(results) # {}
        THEN [ exit_code |-> Some(1), stdout |-> << >>,
               stderr |-> << ErrorLine(results[Min(Raising(results))]) >> ]
        ELSE IF ~ all_equal(versions)
        THEN [ exit_code |-> Some(1), stdout |-> << >>,
               stderr |-> << MismatchLine(versions) >> ]
        ELSE [ exit_code |-> Some(0), stdout |-> << versions[1] >>, stderr |-> << >> ]

\* C10: the outcome depends only on the three manifests: a run gives the exit
\* status and output of the run that takes every path from its default,
\* whichever options the command line gives.
C10_OutcomeIndependentOfOptions ==
    pc = "done" =>
        /\ exit_code = DefaultRun(manifests).exit_code
        /\ stdout = DefaultRun(manifests).stdout
        /\ stderr = DefaultRun(manifests).stderr


====
